---- MODULE Spec2Model ----
(***************************************************************************)
(* mTLS server of src/main.rs: trust material assembly (PEM files or a     *)
(* PKCS#12 bundle), the depth-aware verification callback verifier_cb, the *)
(* per-connection handler handle_conn and the accept loop of main.         *)
(*                                                                         *)
(* Option<T> values are sequences: <<>> is None, <<x>> is Some(x).         *)
(* Result<T> values are records [ok |-> BOOLEAN, ...].                     *)
(***************************************************************************)
EXTENDS Integers, Sequences, FiniteSets, TLC

----------------------------------------------------------------------------
(* Bounds of the model *)

\* longest subject name (number of attribute entries) of a peer leaf
MaxEntries == 2
\* longest peer chain walked by the verification callback alone (SpecCb)
MaxChain == 2
\* most CA certificates in a PKCS#12 bundle / certificates in a PEM file
MaxCa == 3
\* most certificates in the client-CA file
MaxClientCa == 2
\* most sockets the accept loop accepts
MaxConns == 2
\* most sockets accepted when the server runs from either material source
MaxProbe == 1

----------------------------------------------------------------------------
(* Option helpers *)

None == <<>>
Some(x) == <<x>>
IsSome(o) == Len(o) > 0
Unwrap(o) == o[1]

----------------------------------------------------------------------------
(* X.509 names and certificates *)

TRUST_DEVICES == "TrustedDevices"

\* An ASN.1 string: its raw content octets (written as text) and whether
\* the conversion to UTF-8 succeeds on it.
Asn1(bytes, wellformed) == [bytes |-> bytes, wellformed |-> wellformed]

\* X509NameEntryRef: object().nid() and data()
Entry(nid, data) == [nid |-> nid, data |-> data]

\* Asn1StringRef::as_utf8 : Result<OpensslString, ErrorStack>, as an Option
as_utf8(data) == IF data.wellformed THEN Some(data.bytes) ELSE None

\* X509NameRef::entries_by_nid
entries_by_nid(name, nid) == SelectSeq(name, LAMBDA e : e.nid = nid)

\* A certificate: subject and issuer names, its own key and the key that
\* signed it (what the issuer check of the trust engine compares).
X509Cert(subject, issuer, key, akid) ==
    [subject |-> subject, issuer |-> issuer, key |-> key, akid |-> akid]

\* X509Ref::issued : `issuer` issued `subject` iff the names chain and the
\* authority key of `subject` is the key of `issuer`.
issued(issuer, subject) ==
    /\ subject.issuer = issuer.subject
    /\ subject.akid = issuer.key

\* is_self_signed: the certificate passes the issuer check against itself
is_self_signed(cert) == issued(cert, cert)

----------------------------------------------------------------------------
(* Rendering of names *)

\* Nid::short_name : Result<&str>, as an Option; the attribute types of the
\* model all have one
short_name(nid) == IF nid \in {"CN", "OU"} THEN Some(nid) ELSE None

\* hex::encode on the content octets of a value: two lowercase hexadecimal
\* digits per octet, for the values peers' names hold
hex_encode(bytes) ==
    [b \in {"TrustedDevices", "TrustedDevicesX", "trusteddevices", "Other", "dev1"} |->
        CASE b = "TrustedDevices" -> "5472757374656444657669636573"
          [] b = "TrustedDevicesX" -> "547275737465644465766963657358"
          [] b = "trusteddevices" -> "7472757374656464657669636573"
          [] b = "Other" -> "4f74686572"
          [] b = "dev1" -> "64657631"][bytes]

\* Vec<String>::join(sep)
RECURSIVE join(_, _)
join(parts, sep) ==
    IF Len(parts) = 0 THEN ""
    ELSE IF Len(parts) = 1 THEN parts[1]
    ELSE parts[1] \o sep \o join(Tail(parts), sep)

\* x509_name_to_string: one "key=val" per entry, in order; a value that
\* does not convert to UTF-8 is rendered as the hex of its octets
x509_name_to_string(name) ==
    join([i \in DOMAIN name |->
            LET e == name[i]
                key == IF IsSome(short_name(e.nid)) THEN Unwrap(short_name(e.nid))
                       ELSE "UNKNOWN"
                val == IF IsSome(as_utf8(e.data)) THEN Unwrap(as_utf8(e.data))
                       ELSE hex_encode(e.data.bytes)
            IN  key \o "=" \o val],
         ", ")

\* the subject as the rejection message of verifier_cb lists it (lines
\* 210-215): filter_map keeps the entries whose value converts to UTF-8
reject_subject(name) ==
    join([i \in DOMAIN SelectSeq(name, LAMBDA e : IsSome(as_utf8(e.data))) |->
            LET e == SelectSeq(name, LAMBDA x : IsSome(as_utf8(x.data)))[i]
            IN  (IF IsSome(short_name(e.nid)) THEN Unwrap(short_name(e.nid)) ELSE "?")
                    \o "=" \o Unwrap(as_utf8(e.data))],
         ", ")

----------------------------------------------------------------------------
(* verifier_cb *)

\* X509StoreContextRef as the callback reads it
StoreCtx(current_cert, error_depth) ==
    [current_cert |-> current_cert, error_depth |-> error_depth]

has_ou_any_attribute(leaf) ==
    \E i \in DOMAIN leaf.subject :
        LET s == as_utf8(leaf.subject[i].data)
        IN  IsSome(s) /\ Unwrap(s) = TRUST_DEVICES

\* `has_ou` of verifier_cb: some OU entry converts to text equal to
\* TRUST_DEVICES
has_ou(leaf) ==
    LET ous == entries_by_nid(leaf.subject, "OU")
    IN  \E i \in DOMAIN ous :
            LET s == as_utf8(ous[i].data)
            IN  IsSome(s) /\ Unwrap(s) = TRUST_DEVICES

verifier_always_true_cb(preverified, x509_ctx) == TRUE

verifier_cb_without_ou_gate(preverified, x509_ctx) == preverified

verifier_cb_ignores_preverified(preverified, x509_ctx) ==
    IF x509_ctx.error_depth # 0 THEN TRUE
    ELSE IF ~IsSome(x509_ctx.current_cert) THEN FALSE
    ELSE has_ou(Unwrap(x509_ctx.current_cert))

verifier_cb_any_depth(preverified, x509_ctx) ==
    IF ~preverified THEN FALSE
    ELSE IF ~IsSome(x509_ctx.current_cert) THEN FALSE
    ELSE has_ou(Unwrap(x509_ctx.current_cert))

verifier_cb(preverified, x509_ctx) ==
    IF ~preverified THEN FALSE
    ELSE IF x509_ctx.error_depth # 0 THEN TRUE
    ELSE IF ~IsSome(x509_ctx.current_cert) THEN FALSE
    ELSE has_ou(Unwrap(x509_ctx.current_cert))

\* what verifier_cb prints when it refuses the leaf (lines 208-217): the
\* listing is formatted with {:?}, in quotes. None when it prints nothing.
reject_diagnostic(preverified, x509_ctx) ==
    IF preverified /\ x509_ctx.error_depth = 0 /\ IsSome(x509_ctx.current_cert)
       /\ ~has_ou(Unwrap(x509_ctx.current_cert))
    THEN Some("reject leaf: missing OU=" \o TRUST_DEVICES \o "; subject=\""
              \o reject_subject(Unwrap(x509_ctx.current_cert).subject) \o "\"")
    ELSE None

\* what verifier_cb prints first, at every invocation (lines 156-160): one
\* line per certificate of the chain
chain_listing(chain) ==
    [i \in DOMAIN chain |->
        "chain[" \o ToString(i - 1) \o "] subject="
            \o x509_name_to_string(chain[i].subject)]

----------------------------------------------------------------------------
(* SslAcceptorBuilder and the trust material assembly *)

Ok(v) == [ok |-> TRUE, val |-> v, err |-> ""]
Err(e) == [ok |-> FALSE, val |-> None, err |-> e]

\* SslAcceptor::mozilla_intermediate(SslMethod::tls()): a fresh builder
mozilla_intermediate ==
    [pkey |-> None, cert |-> None, extra_chain |-> <<>>, ca_store |-> {},
     client_ca_list |-> <<>>, verify_mode |-> {}, callback |-> "none"]

\* X509::from_pem on the bytes of a file: the first certificate of the PEM
\* text. `pem` is the sequence of certificates the file holds.
X509_from_pem(pem) ==
    IF Len(pem) = 0 THEN Err("pem: no certificate") ELSE Ok(Head(pem))

\* std::fs::read followed by X509::from_pem (main, line 25). A file is None
\* when it cannot be read.
load_client_ca(file) ==
    IF ~IsSome(file) THEN Err("io: client-ca.pem") ELSE X509_from_pem(Unwrap(file))

\* builder.set_private_key_file("key.pem", PEM)
set_private_key_file(b, key_file) ==
    IF key_file \in {"missing", "garbage"} THEN Err("key.pem")
    ELSE Ok([b EXCEPT !.pkey = Some(key_file)])

\* builder.set_certificate_chain_file("cert.pem"): the first certificate of
\* the file becomes the leaf, every further one is appended to the extra
\* chain as it is.
set_certificate_chain_file(b, file) ==
    IF ~IsSome(file) \/ Len(Unwrap(file)) = 0 THEN Err("cert.pem")
    ELSE Ok([b EXCEPT !.cert = Some(Head(Unwrap(file))),
                      !.extra_chain = Tail(Unwrap(file))])

\* builder.set_ca_file("client-ca.pem"): every certificate of the file is
\* loaded into the verification store.
set_ca_file(b, file) ==
    IF ~IsSome(file) \/ Len(Unwrap(file)) = 0 THEN Err("client-ca.pem")
    ELSE Ok([b EXCEPT !.ca_store =
                 b.ca_store \cup {Unwrap(file)[i] : i \in DOMAIN Unwrap(file)}])

\* builder.add_client_ca(&ca): the subject name of one certificate is added
\* to the names sent in the certificate request.
add_client_ca(b, cert) ==
    Ok([b EXCEPT !.client_ca_list = Append(b.client_ca_list, cert.subject)])

\* builder.set_private_key / set_certificate / add_extra_chain_cert
set_private_key(b, pkey) == Ok([b EXCEPT !.pkey = Some(pkey)])
set_certificate(b, cert) == Ok([b EXCEPT !.cert = Some(cert)])
add_extra_chain_cert(b, cert) ==
    Ok([b EXCEPT !.extra_chain = Append(b.extra_chain, cert)])

\* the `for` loop of build_acceptor_from_pkcs12 (lines 134-144). `ca` is
\* parsed.ca, an Option of a stack: iter_mut() yields the stack itself, at
\* most once, and the body pops its last certificate.
chain_loop_unfiltered(b, ca) ==
    IF ~IsSome(ca) \/ Len(Unwrap(ca)) = 0 THEN Ok(b)
    ELSE add_extra_chain_cert(b, Unwrap(ca)[Len(Unwrap(ca))])

chain_loop(b, ca) ==
    IF ~IsSome(ca) THEN Ok(b)
    ELSE LET stack == Unwrap(ca)
         IN  IF Len(stack) = 0 THEN Ok(b)
             ELSE LET cr == stack[Len(stack)]
                  IN  IF is_self_signed(cr) THEN Ok(b)
                      ELSE add_extra_chain_cert(b, cr)

build_acceptor_from_pkcs12_one_error(file) ==
    IF ~IsSome(file) THEN Err("reading server.p12")
    ELSE LET parsed == Unwrap(file)
         IN  IF ~parsed.parses THEN Err("pkcs12 parse")
             ELSE IF ~IsSome(parsed.pkey) \/ ~IsSome(parsed.cert)
                  THEN Err("PKCS#12 has no private key")
             ELSE chain_loop(set_certificate(set_private_key(mozilla_intermediate,
                                Unwrap(parsed.pkey)).val, Unwrap(parsed.cert)).val,
                             parsed.ca)

\* build_acceptor_from_pkcs12(p12_path, password). `file` is None when the
\* bundle cannot be read; `parses` is false when from_der or parse2 fails.
build_acceptor_from_pkcs12(file) ==
    IF ~IsSome(file) THEN Err("reading server.p12")
    ELSE LET parsed == Unwrap(file)
         IN  IF ~parsed.parses THEN Err("pkcs12 parse")
             ELSE IF ~IsSome(parsed.pkey) THEN Err("PKCS#12 has no private key")
             ELSE IF ~IsSome(parsed.cert)
                  THEN Err("PKCS#12 has no end-entity certificate")
             ELSE LET b1 == set_private_key(mozilla_intermediate,
                                            Unwrap(parsed.pkey)).val
                      b2 == set_certificate(b1, Unwrap(parsed.cert)).val
                  IN  chain_loop(b2, parsed.ca)

\* the PEM branch of main (lines 32-36)
assemble_pem(files, ca_cert) ==
    LET r1 == set_private_key_file(mozilla_intermediate, files.key_pem)
    IN  IF ~r1.ok THEN r1
        ELSE LET r2 == set_certificate_chain_file(r1.val, files.cert_pem)
             IN  IF ~r2.ok THEN r2
                 ELSE LET r3 == set_ca_file(r2.val, files.client_ca)
                      IN  IF ~r3.ok THEN r3
                          ELSE add_client_ca(r3.val, ca_cert)

\* the PKCS#12 branch of main (lines 38-40)
assemble_p12(files, ca_cert) ==
    LET r1 == build_acceptor_from_pkcs12(files.p12)
    IN  IF ~r1.ok THEN r1
        ELSE LET r2 == set_ca_file(r1.val, files.client_ca)
             IN  IF ~r2.ok THEN r2
                 ELSE add_client_ca(r2.val, ca_cert)

\* a verify mode that requests a certificate and does not require one
set_verify_peer_only(b) ==
    [b EXCEPT !.verify_mode = {"PEER"}, !.callback = "verifier_cb"]

\* the permissive callback installed in place of the policy
set_verify_always_true(b) ==
    [b EXCEPT !.verify_mode = {"PEER", "FAIL_IF_NO_PEER_CERT"},
              !.callback = "verifier_always_true_cb"]

\* builder.set_verify(..) and builder.set_verify_callback(..) (lines 43-47)
set_verify(b) ==
    [b EXCEPT !.verify_mode = {"PEER", "FAIL_IF_NO_PEER_CERT"},
              !.callback = "verifier_cb"]

----------------------------------------------------------------------------
(* State *)

VARIABLES
    fs,          \* the material files on disk, as main reads them (lines 25-38)
    use_pem,     \* the source switch of main (line 27)
    mainpc,      \* where main is (lines 21-64)
    ca,          \* `ca` of main: the certificate parsed from client-ca.pem (line 25)
    builder,     \* the SslAcceptorBuilder under construction (line 28)
    acceptor,    \* the built SslAcceptor, shared by the tasks (line 49)
    exit,        \* the error main returned, if it has returned (line 21)
    conns,       \* the spawned connection tasks, in accept order (line 58)
    errlog,      \* what the tasks printed for failed connections (line 60)
    cbChain,     \* verification walk: the peer chain, leaf first
    cbEngine,    \* verification walk: the trust engine's verdict per depth
    cbDepth,     \* verification walk: the next depth to examine
    cbCalls      \* verification walk: the invocations of verifier_cb so far

srvVars == <<fs, use_pem, mainpc, ca, builder, acceptor, exit, conns, errlog>>
cbVars == <<cbChain, cbEngine, cbDepth, cbCalls>>
vars == <<srvVars, cbVars>>

----------------------------------------------------------------------------
(* Input domains *)

Name(cn) == <<Entry("CN", Asn1(cn, TRUE))>>

\* a client certificate with the given subject, issued by the client CA
PeerCert(subject) == X509Cert(subject, Name("ClientCA"), "kPeer", "kClientCA")

SubjectEntries ==
    {Entry("OU", Asn1(v, TRUE)) :
        v \in {"TrustedDevices", "TrustedDevicesX", "trusteddevices", "Other"}}
    \cup {Entry("CN", Asn1(v, TRUE)) : v \in {"TrustedDevices", "dev1"}}
    \cup {Entry("OU", Asn1("TrustedDevices", FALSE))}

SeqsUpTo(S, n) == UNION {[1..k -> S] : k \in 0..n}

LeafSubjects == SeqsUpTo(SubjectEntries, MaxEntries)

IssuerSubjects ==
    {Name("ClientCA"),
     <<Entry("CN", Asn1("ClientCA", TRUE)), Entry("OU", Asn1("TrustedDevices", TRUE))>>}

\* peer chains, leaf at index 1 (depth 0 is index 1)
PeerChains(leaves, n) ==
    {<<PeerCert(l)>> \o up : l \in leaves,
                             up \in SeqsUpTo({PeerCert(s) : s \in IssuerSubjects}, n - 1)}

\* the trust engine's state for one depth: its verdict, and whether the
\* context holds a current certificate
EngineSteps == [preverified : BOOLEAN, has_current : BOOLEAN]

----------------------------------------------------------------------------
(* The verification walk: the trust engine invokes the callback once per   *)
(* certificate of the chain                                                *)

\* one invocation of verifier_cb, as the trust engine makes it
CbCall(chain, depth, step) ==
    LET cur == IF step.has_current THEN Some(chain[depth + 1]) ELSE None
    IN  [depth |-> depth, preverified |-> step.preverified, current_cert |-> cur,
         decision |-> verifier_cb(step.preverified, StoreCtx(cur, depth)),
         listing |-> chain_listing(chain),
         diag |-> reject_diagnostic(step.preverified, StoreCtx(cur, depth))]

ServerIdle ==
    /\ fs = [client_ca |-> None, key_pem |-> "missing", cert_pem |-> None,
             p12 |-> None]
    /\ use_pem = TRUE
    /\ mainpc = "idle"
    /\ ca = None
    /\ builder = None
    /\ acceptor = None
    /\ exit = None
    /\ conns = <<>>
    /\ errlog = {}

InitCb ==
    /\ ServerIdle
    /\ cbChain \in PeerChains(LeafSubjects, MaxChain)
    /\ cbEngine \in [1..Len(cbChain) -> EngineSteps]
    /\ cbDepth = Len(cbChain) - 1
    /\ cbCalls = <<>>

CallVerifier ==
    /\ cbDepth >= 0
    /\ cbCalls' = Append(cbCalls, CbCall(cbChain, cbDepth, cbEngine[cbDepth + 1]))
    /\ cbDepth' = cbDepth - 1
    /\ UNCHANGED <<cbChain, cbEngine, srvVars>>

NextCb == CallVerifier

SpecCb == InitCb /\ [][NextCb]_vars

----------------------------------------------------------------------------
(* Startup of main *)

\* certificates of the server side
RootCA == X509Cert(Name("RootCA"), Name("RootCA"), "kRoot", "kRoot")
IntA == X509Cert(Name("IntA"), Name("RootCA"), "kA", "kRoot")
IntB == X509Cert(Name("IntB"), Name("IntA"), "kB", "kA")
\* subject and issuer names agree, but another key signed it
Twin == X509Cert(Name("Twin"), Name("Twin"), "kTwin", "kRoot")
ServerLeaf == X509Cert(Name("server"), Name("IntB"), "kServer", "kB")
ClientCA == X509Cert(Name("ClientCA"), Name("ClientCA"), "kClientCA", "kClientCA")
ClientCA2 == X509Cert(Name("ClientCA2"), Name("ClientCA2"), "kClientCA2", "kClientCA2")

CaCerts == {RootCA, IntA, IntB, Twin}

NoWalk ==
    /\ cbChain = <<>>
    /\ cbEngine = <<>>
    /\ cbDepth = -1
    /\ cbCalls = <<>>

MainStart ==
    /\ mainpc = "load_ca"
    /\ ca = None
    /\ builder = None
    /\ acceptor = None
    /\ exit = None
    /\ conns = <<>>
    /\ errlog = {}
    /\ NoWalk

\* main returns Err(e): the process exits
MainExits(e) ==
    /\ mainpc' = "exited"
    /\ exit' = Some(e)

\* line 25
LoadClientCa ==
    /\ mainpc = "load_ca"
    /\ LET r == load_client_ca(fs.client_ca)
       IN  IF r.ok
           THEN /\ ca' = Some(r.val)
                /\ mainpc' = "assemble"
                /\ UNCHANGED exit
           ELSE /\ MainExits(r.err)
                /\ UNCHANGED ca
    /\ UNCHANGED <<fs, use_pem, builder, acceptor, conns, errlog, cbVars>>

\* startup that goes on with whatever was assembled
Assembled_despite_errors(r) ==
    /\ builder' = Some(IF r.ok THEN r.val ELSE mozilla_intermediate)
    /\ mainpc' = "set_verify"
    /\ UNCHANGED exit

Assembled(r) ==
    IF r.ok
    THEN /\ builder' = Some(r.val)
         /\ mainpc' = "set_verify"
         /\ UNCHANGED exit
    ELSE /\ MainExits(r.err)
         /\ UNCHANGED builder

\* lines 31-36
AssemblePem ==
    /\ mainpc = "assemble"
    /\ use_pem
    /\ Assembled(assemble_pem(fs, Unwrap(ca)))
    /\ UNCHANGED <<fs, use_pem, ca, acceptor, conns, errlog, cbVars>>

\* lines 37-41
AssembleP12 ==
    /\ mainpc = "assemble"
    /\ ~use_pem
    /\ Assembled(assemble_p12(fs, Unwrap(ca)))
    /\ UNCHANGED <<fs, use_pem, ca, acceptor, conns, errlog, cbVars>>

\* lines 43-49: the verify mode and callback are set and the acceptor built
BuildAcceptor ==
    /\ mainpc = "set_verify"
    /\ acceptor' = Some(set_verify(Unwrap(builder)))
    /\ builder' = None
    /\ mainpc' = "bind"
    /\ UNCHANGED <<fs, use_pem, ca, exit, conns, errlog, cbVars>>

\* material files of the assembly, for either setting of the source switch
ChainFiles ==
    {None, Some(<<>>)}
    \cup {Some(<<ServerLeaf>> \o tl) : tl \in SeqsUpTo(CaCerts, MaxCa)}

ClientCaFiles ==
    {None} \cup {Some(f) : f \in SeqsUpTo({ClientCA, ClientCA2}, MaxClientCa)}

P12Files ==
    {None}
    \cup {Some([parses |-> FALSE, pkey |-> None, cert |-> None, ca |-> None])}
    \cup {Some(b) : b \in
            [parses : {TRUE}, pkey : {None, Some("kServer")},
             cert : {None, Some(ServerLeaf)},
             ca : {None} \cup {Some(st) : st \in SeqsUpTo(CaCerts, MaxCa)}]}

\* main fixes `use_pem` to true; the assembly is run here under either
\* setting of the switch, so that both of its branches are taken
InitAsm ==
    /\ use_pem \in BOOLEAN
    /\ fs \in [client_ca : ClientCaFiles,
               key_pem : IF use_pem THEN {"missing", "garbage", "kServer"}
                         ELSE {"missing"},
               cert_pem : IF use_pem THEN ChainFiles ELSE {None},
               p12 : IF use_pem THEN {None} ELSE P12Files]
    /\ MainStart

NextAsm ==
    \/ LoadClientCa
    \/ AssemblePem
    \/ AssembleP12
    \/ BuildAcceptor

SpecAsm == InitAsm /\ [][NextAsm]_vars

----------------------------------------------------------------------------
(* The accept loop of main and the connection tasks (handle_conn) *)

\* `buf` of handle_conn
BufLen == 4096

\* a header block announcing a length the body does not have
resp_length_of_request ==
    "HTTP/1.1 200 OK\r\nContent-Length: " \o ToString(BufLen)
        \o "\r\nContent-Type: text/plain\r\nConnection: close\r\n\r\n"

\* `body` and `resp` of handle_conn
body == "ok\n"
resp ==
    "HTTP/1.1 200 OK\r\nContent-Length: " \o ToString(Len(body))
        \o "\r\nContent-Type: text/plain\r\nConnection: close\r\n\r\n"

\* the callback the acceptor holds, as the trust engine calls it
verify_callback(acc, preverified, x509_ctx) ==
    IF acc.callback = "verifier_cb" THEN verifier_cb(preverified, x509_ctx)
    ELSE IF acc.callback = "verifier_always_true_cb"
         THEN verifier_always_true_cb(preverified, x509_ctx)
    ELSE preverified

\* the `?` on Ssl::new and SslStream::new (lines 68, 71)
new_result(ok) == IF ok THEN "continue" ELSE "Err(ssl)"

\* the `?` on accept().await (line 74)
accept_result(ok) == IF ok THEN "continue" ELSE "Err(handshake)"

\* Result<usize>::unwrap_or(0) on the outcome of the read (line 78)
unwrap_or(r, default) == IF r.ok THEN r.n ELSE default

\* what handle_conn does with the outcome of the read (line 78): nothing
\* is propagated
read_result(ok) == "continue"

write_all_result_ignored(ok) == "continue"

\* the `?` on write_all(..).await (lines 86, 87)
write_all_result(ok) == IF ok THEN "continue" ELSE "Err(write)"

shutdown_result_propagated(ok) == IF ok THEN "Ok" ELSE "Err(shutdown)"

\* shutdown().await.ok() followed by Ok(()) (lines 88-90)
shutdown_result(ok) == "Ok"

\* the task's closure (lines 58-62): an error of handle_conn is printed
task_log(log, c, res) == IF res = "Ok" THEN log ELSE log \cup {<<c, res>>}

\* a task just spawned for an accepted socket
NewConn ==
    [pc |-> "wrap", peer |-> "unknown", chain |-> <<>>, depth |-> -1,
     calls |-> <<>>, faults |-> {}, stalled |-> FALSE,
     rd |-> None, n |-> 0, wire |-> "", sd |-> None, result |-> "pending"]

\* a failing task that takes the other tasks down with it
Step_cancels_others(c, conn, r) ==
    IF r = "continue"
    THEN /\ conns' = [conns EXCEPT ![c] = conn]
         /\ UNCHANGED errlog
    ELSE /\ conns' = [d \in DOMAIN conns |->
                        IF d = c THEN [conn EXCEPT !.pc = "done", !.result = r]
                        ELSE IF r # "Ok" /\ conns[d].pc # "done"
                             THEN [conns[d] EXCEPT !.pc = "done",
                                                   !.result = "Cancelled"]
                             ELSE conns[d]]
         /\ errlog' = task_log(errlog, c, r)

\* connection c moves to `conn`, unless `r` is a return value of
\* handle_conn: then the task logs it if it is an error, and ends
Step(c, conn, r) ==
    IF r = "continue"
    THEN /\ conns' = [conns EXCEPT ![c] = conn]
         /\ UNCHANGED errlog
    ELSE /\ conns' = [conns EXCEPT ![c] = [conn EXCEPT !.pc = "done", !.result = r]]
         /\ errlog' = task_log(errlog, c, r)

\* the record of a step of `conn` that went to `pc` or failed at `what`
Outcome(conn, ok, pc, what) ==
    [conn EXCEPT !.pc = pc,
                 !.faults = IF ok THEN conn.faults ELSE conn.faults \cup {what}]

Running == mainpc = "accept"

\* line 52
Bind ==
    /\ mainpc = "bind"
    /\ \/ /\ mainpc' = "accept"
          /\ UNCHANGED exit
       \/ MainExits("bind")
    /\ UNCHANGED <<fs, use_pem, ca, builder, acceptor, conns, errlog, cbVars>>

\* an accept loop that returns after its first socket
AcceptUpTo_once(n) ==
    /\ mainpc = "accept"
    /\ Len(conns) < n
    /\ conns' = Append(conns, NewConn)
    /\ mainpc' = "exited"
    /\ exit' = Some("Ok")
    /\ UNCHANGED <<fs, use_pem, ca, builder, acceptor, errlog, cbVars>>

\* lines 56-58: a socket is accepted and its task spawned; the loop is
\* followed for its first n sockets
AcceptUpTo(n) ==
    /\ Running
    /\ Len(conns) < n
    /\ conns' = Append(conns, NewConn)
    /\ UNCHANGED <<fs, use_pem, mainpc, ca, builder, acceptor, exit, errlog, cbVars>>

Accept == AcceptUpTo(MaxConns)

\* line 56: accept fails and main returns the error: the process exits, the
\* runtime is dropped and with it every task still alive
AcceptFails ==
    /\ Running
    /\ MainExits("accept")
    /\ conns' = <<>>
    /\ UNCHANGED <<fs, use_pem, ca, builder, acceptor, errlog, cbVars>>

\* a task that alters the configuration it shares
ConnFrame_reconfigures ==
    /\ acceptor' = Some([Unwrap(acceptor) EXCEPT !.extra_chain = <<>>,
                                                 !.callback = "none"])
    /\ UNCHANGED <<fs, use_pem, mainpc, ca, builder, exit, cbVars>>

ConnFrame == UNCHANGED <<fs, use_pem, mainpc, ca, builder, acceptor, exit, cbVars>>

\* connections handled one after the other, in accept order
At_serial(c, pc) ==
    /\ Running /\ c \in DOMAIN conns /\ conns[c].pc = pc
    /\ ~conns[c].stalled
    /\ \A d \in 1..(c - 1) : conns[d].pc = "done"

\* the task of connection c is at `pc` and can be polled: the process runs
\* and the I/O the task awaits is not pending forever
At(c, pc) ==
    /\ Running /\ c \in DOMAIN conns /\ conns[c].pc = pc
    /\ ~conns[c].stalled

\* lines 68-71: Ssl::new and SslStream::new
Wrap(c) ==
    /\ At(c, "wrap")
    /\ \E ok \in BOOLEAN :
        Step(c, Outcome(conns[c], ok, "handshake", "ssl"), new_result(ok))
    /\ ConnFrame

\* the chains a peer may present in its Certificate message
ConnLeaves ==
    {<<Entry("CN", Asn1("dev1", TRUE)), Entry("OU", Asn1("TrustedDevices", TRUE))>>,
     <<Entry("CN", Asn1("TrustedDevices", TRUE)), Entry("OU", Asn1("TrustedDevicesX", TRUE))>>}

ConnChains ==
    {<<>>} \cup {<<PeerCert(l)>> : l \in ConnLeaves}
           \cup {<<PeerCert(l), ClientCA>> : l \in ConnLeaves}

\* whether the handshake goes on once the peer's Certificate message holds
\* `chain`: with PEER and FAIL_IF_NO_PEER_CERT an empty one fails it
certificate_ok(acc, chain) ==
    ~("PEER" \in acc.verify_mode /\ "FAIL_IF_NO_PEER_CERT" \in acc.verify_mode
      /\ Len(chain) = 0)

\* line 74, first part: the peer's Certificate message arrives; with PEER
\* set its chain is handed to the trust engine
HsCertificate(c) ==
    /\ At(c, "handshake")
    /\ \E chain \in ConnChains :
        LET acc == Unwrap(acceptor)
            ok == certificate_ok(acc, chain)
            verify == "PEER" \in acc.verify_mode /\ Len(chain) > 0
            conn == [conns[c] EXCEPT !.chain = chain, !.depth = Len(chain) - 1,
                                     !.peer = IF Len(chain) = 0 THEN "no_certificate"
                                              ELSE "certificate"]
        IN  Step(c, Outcome(conn, ok, IF verify THEN "verify" ELSE "hs_finish",
                            "handshake"),
                 accept_result(ok))
    /\ ConnFrame

\* line 74, during the handshake: the trust engine examines the certificate
\* at the current depth, root first, and invokes the callback of the
\* acceptor with its verdict; a reject aborts the handshake.
HsVerify(c) ==
    /\ At(c, "verify")
    /\ \E preverified \in BOOLEAN :
        LET conn == conns[c]
            cur == Some(conn.chain[conn.depth + 1])
            call == [depth |-> conn.depth, preverified |-> preverified,
                     current_cert |-> cur,
                     decision |-> verify_callback(Unwrap(acceptor), preverified,
                                                  StoreCtx(cur, conn.depth))]
            seen == [conn EXCEPT !.calls = Append(conn.calls, call),
                                 !.depth = IF call.decision THEN conn.depth - 1
                                           ELSE conn.depth]
        IN  Step(c, Outcome(seen, call.decision,
                            IF conn.depth = 0 THEN "hs_finish" ELSE "verify",
                            "handshake"),
                 accept_result(call.decision))
    /\ ConnFrame

\* line 74, last part: the rest of the handshake completes
HsFinish(c) ==
    /\ At(c, "hs_finish")
    /\ Step(c, Outcome(conns[c], TRUE, "read", "handshake"), accept_result(TRUE))
    /\ ConnFrame

\* line 74: the handshake fails in the transport or the protocol
HsFails(c) ==
    /\ Running /\ c \in DOMAIN conns
    /\ \E pc \in {"handshake", "verify", "hs_finish"} : At(c, pc)
    /\ Step(c, Outcome(conns[c], FALSE, "read", "handshake"), accept_result(FALSE))
    /\ ConnFrame

\* the outcomes of one read into `buf`
ReadResults ==
    {[ok |-> TRUE, n |-> k] : k \in {0, 1, BufLen}} \cup {[ok |-> FALSE, n |-> 0]}

\* lines 77-78
Read(c) ==
    /\ At(c, "read")
    /\ \E r \in ReadResults :
        Step(c, [Outcome(conns[c], r.ok, "write_headers", "read")
                    EXCEPT !.rd = Some(r), !.n = unwrap_or(r, 0)],
             read_result(r.ok))
    /\ ConnFrame

\* what write_all may have put on the wire when it fails
Partial(data) == {"", IF data = body THEN "o" ELSE "HTTP/1.1 200 OK\r\n"}

\* the outcomes of write_all(data): the bytes that reached the wire
WriteResults(data) ==
    {[ok |-> TRUE, sent |-> data]} \cup {[ok |-> FALSE, sent |-> p] : p \in Partial(data)}

\* line 86
WriteHeaders(c) ==
    /\ At(c, "write_headers")
    /\ \E w \in WriteResults(resp) :
        Step(c, [Outcome(conns[c], w.ok, "write_body", "write")
                    EXCEPT !.wire = conns[c].wire \o w.sent],
             write_all_result(w.ok))
    /\ ConnFrame

\* line 87
WriteBody(c) ==
    /\ At(c, "write_body")
    /\ \E w \in WriteResults(body) :
        Step(c, [Outcome(conns[c], w.ok, "shutdown", "write")
                    EXCEPT !.wire = conns[c].wire \o w.sent],
             write_all_result(w.ok))
    /\ ConnFrame

\* lines 88-90
Shutdown(c) ==
    /\ At(c, "shutdown")
    /\ \E ok \in BOOLEAN :
        Step(c, [Outcome(conns[c], ok, "done", "shutdown") EXCEPT !.sd = Some(ok)],
             shutdown_result(ok))
    /\ ConnFrame

\* the points where handle_conn awaits the network (lines 74, 78, 86-88)
SuspensionPoints ==
    {"handshake", "hs_finish", "read", "write_headers", "write_body", "shutdown"}

\* the peer of connection c makes no progress from now on: the await the
\* task is suspended in never completes (there is no timeout)
Stall(c) ==
    /\ \E pc \in SuspensionPoints : At(c, pc)
    /\ conns' = [conns EXCEPT ![c].stalled = TRUE]
    /\ UNCHANGED errlog
    /\ ConnFrame

\* one poll of the task of connection c
TaskStep(c) ==
    \/ Wrap(c)
    \/ HsCertificate(c)
    \/ HsVerify(c)
    \/ HsFinish(c)
    \/ Read(c)
    \/ WriteHeaders(c)
    \/ WriteBody(c)
    \/ Shutdown(c)

\* the material files of the running server
ServerFiles ==
    [client_ca : {None, Some(<<ClientCA, ClientCA2>>)},
     key_pem : {"missing", "kServer"},
     cert_pem : {None, Some(<<ServerLeaf, IntB, IntA>>)},
     p12 : {None}]

Init ==
    /\ use_pem = TRUE
    /\ fs \in ServerFiles
    /\ MainStart

Next ==
    \/ LoadClientCa
    \/ AssemblePem
    \/ BuildAcceptor
    \/ Bind
    \/ Accept
    \/ AcceptFails
    \/ \E c \in 1..MaxConns :
        \/ Wrap(c)
        \/ HsCertificate(c)
        \/ HsVerify(c)
        \/ HsFinish(c)
        \/ HsFails(c)
        \/ Read(c)
        \/ WriteHeaders(c)
        \/ WriteBody(c)
        \/ Shutdown(c)

Spec == Init /\ [][Next]_vars

\* the server with peers that may stall, under the fairness of the tokio
\* scheduler: a task that can be polled is polled, and so is main when a
\* socket waits to be accepted. A failure of accept is never forced.
NextStall ==
    \/ Next
    \/ \E c \in 1..MaxConns : Stall(c)

SpecStall ==
    /\ Init /\ [][NextStall]_vars
    /\ WF_vars(Accept)
    /\ \A c \in 1..MaxConns : WF_vars(TaskStep(c))

\* the material files of the server run from either source: each file
\* missing, unusable or good
SourceFiles(pem) ==
    [client_ca : {None, Some(<<>>), Some(<<ClientCA>>)},
     key_pem : IF pem THEN {"missing", "garbage", "kServer"} ELSE {"missing"},
     cert_pem : IF pem THEN {None, Some(<<>>), Some(<<ServerLeaf, IntB>>)}
                ELSE {None},
     p12 : IF pem THEN {None}
           ELSE {None, Some([parses |-> FALSE, pkey |-> None, cert |-> None,
                             ca |-> None])}
                \cup {Some(b) : b \in
                        [parses : {TRUE}, pkey : {None, Some("kServer")},
                         cert : {None, Some(ServerLeaf)},
                         ca : {None, Some(<<RootCA, IntB>>)}]}]

\* main fixes `use_pem` to true; the whole server is run here under either
\* setting of the switch
InitSrc ==
    /\ use_pem \in BOOLEAN
    /\ fs \in SourceFiles(use_pem)
    /\ MainStart

NextSrc ==
    \/ LoadClientCa
    \/ AssemblePem
    \/ AssembleP12
    \/ BuildAcceptor
    \/ Bind
    \/ AcceptUpTo(MaxProbe)
    \/ AcceptFails
    \/ \E c \in 1..MaxProbe :
        \/ Wrap(c)
        \/ HsCertificate(c)
        \/ HsVerify(c)
        \/ HsFinish(c)
        \/ HsFails(c)
        \/ Read(c)
        \/ WriteHeaders(c)
        \/ WriteBody(c)
        \/ Shutdown(c)

SpecSrc == InitSrc /\ [][NextSrc]_vars

----------------------------------------------------------------------------
(* Properties of the trust material assembly (SpecAsm) *)

Range(q) == {q[i] : i \in DOMAIN q}

\* the certificate is its own issuer: names and signing key are its own
SelfIssued(cert) == cert.issuer = cert.subject /\ cert.akid = cert.key

\* the assembled configurations: the builder once a branch of main has
\* filled it, the acceptor once built
Assembly == Range(builder) \cup Range(acceptor)

\* C5: no self-signed certificate is in the Extra Chain Set, whichever
\* source assembled it.
C5_NoSelfSignedInExtraChain ==
    \A b \in Assembly : \A c \in Range(b.extra_chain) : ~SelfIssued(c)

\* C6: after build_acceptor_from_pkcs12 returned successfully, the Extra
\* Chain Set holds no certificate that is self-signed.
C6_P12NoSelfSigned ==
    ~use_pem => \A b \in Assembly : \A c \in Range(b.extra_chain) : ~SelfIssued(c)

\* the CA certificates of the PKCS#12 bundle
BundleCas ==
    IF IsSome(fs.p12) /\ IsSome(Unwrap(fs.p12).ca)
    THEN Range(Unwrap(Unwrap(fs.p12).ca)) ELSE {}

\* a bundle whose stack ends with the self-signed root, after an
\* intermediate, was assembled and the root is not in the extra chain
C6_Witness ==
    /\ ~use_pem
    /\ IsSome(acceptor)
    /\ IsSome(fs.p12) /\ IsSome(Unwrap(fs.p12).ca)
    /\ Unwrap(Unwrap(fs.p12).ca) = <<IntA, RootCA>>
    /\ RootCA \notin Range(Unwrap(acceptor).extra_chain)

\* C7: the Extra Chain Set assembled from a PKCS#12 bundle is exactly the
\* set of the bundle's CA certificates that are not self-signed.
C7_P12ChainComplete ==
    ~use_pem =>
        \A b \in Assembly :
            Range(b.extra_chain) = {c \in BundleCas : ~SelfIssued(c)}

\* the PKCS#12 bundle was read and parsed
BundleParsed == IsSome(fs.p12) /\ Unwrap(fs.p12).parses

\* C11: a bundle with no private key fails with the missing-key error, one
\* with a key and no end-entity certificate with the missing-certificate
\* error, a different one, and in both cases no builder is produced.
C11_MissingMaterial ==
    (~use_pem /\ BundleParsed /\ mainpc \notin {"load_ca", "assemble"}
        /\ IsSome(ca)) =>
        LET p == Unwrap(fs.p12)
        IN  /\ ~IsSome(p.pkey) =>
                /\ exit = Some("PKCS#12 has no private key")
                /\ builder = None /\ acceptor = None
            /\ (IsSome(p.pkey) /\ ~IsSome(p.cert)) =>
                /\ exit = Some("PKCS#12 has no end-entity certificate")
                /\ exit # Some("PKCS#12 has no private key")
                /\ builder = None /\ acceptor = None

\* main exited on a bundle that holds a key and CA certificates but no
\* end-entity certificate
C11_Witness ==
    /\ ~use_pem /\ BundleParsed /\ IsSome(ca)
    /\ IsSome(Unwrap(fs.p12).pkey) /\ ~IsSome(Unwrap(fs.p12).cert)
    /\ IsSome(Unwrap(fs.p12).ca)
    /\ mainpc = "exited"
    /\ exit = Some("PKCS#12 has no end-entity certificate")
    /\ builder = None

----------------------------------------------------------------------------
(* Properties of the verification callback (SpecCb) *)

\* the subject holds an OrganizationalUnit entry whose text is exactly
\* "TrustedDevices"
CarriesTrustedOU(cert) ==
    \E i \in DOMAIN cert.subject :
        /\ cert.subject[i].nid = "OU"
        /\ cert.subject[i].data.wellformed
        /\ cert.subject[i].data.bytes = "TrustedDevices"

CbCallSet == {cbCalls[i] : i \in DOMAIN cbCalls}

\* C2: every invocation of verifier_cb with preverified = false rejects,
\* at every depth, with or without a current certificate, whatever the
\* leaf's subject is.
C2_PreverifiedShortCircuit ==
    \A c \in CbCallSet : ~c.preverified => ~c.decision

\* a leaf carrying OU=TrustedDevices was rejected at depth 0 because the
\* trust engine had not preverified it, after a deeper invocation without a
\* current certificate was rejected for the same reason
C2_Witness ==
    /\ \E c \in CbCallSet :
        /\ ~c.preverified /\ c.depth = 0 /\ ~c.decision
        /\ IsSome(c.current_cert) /\ CarriesTrustedOU(Unwrap(c.current_cert))
    /\ \E c \in CbCallSet :
        ~c.preverified /\ c.depth > 0 /\ ~IsSome(c.current_cert) /\ ~c.decision

\* C3: at depth 0 with preverified = true the decision is accept exactly
\* when a current certificate is available and one of its OU entries is
\* exactly "TrustedDevices".
C3_LeafExactMatch ==
    \A c \in CbCallSet :
        (c.preverified /\ c.depth = 0) =>
            (c.decision <=>
                (IsSome(c.current_cert) /\ CarriesTrustedOU(Unwrap(c.current_cert))))

\* a preverified leaf with CN=TrustedDevices and OU=trusteddevices was
\* rejected
C3_Witness ==
    \E c \in CbCallSet :
        /\ c.preverified /\ c.depth = 0 /\ ~c.decision
        /\ IsSome(c.current_cert)
        /\ Unwrap(c.current_cert).subject =
              <<Entry("CN", Asn1("TrustedDevices", TRUE)),
                Entry("OU", Asn1("trusteddevices", TRUE))>>

\* the walk over the chain is over
WalkDone == cbDepth < 0

AllPreverified == \A d \in DOMAIN cbEngine : cbEngine[d].preverified

OverallDecision == \A c \in CbCallSet : c.decision

\* C4: over a chain of two or more certificates, all preverified, the
\* conjunction of the decisions is accept exactly when the depth-0
\* certificate carries OU=TrustedDevices, and every invocation above depth 0
\* accepts.
C4_LeafOnlyEnforcement ==
    (WalkDone /\ Len(cbChain) >= 2 /\ AllPreverified /\ cbEngine[1].has_current) =>
        /\ OverallDecision <=> CarriesTrustedOU(cbChain[1])
        /\ \A c \in CbCallSet : c.depth # 0 => c.decision

\* a fully preverified chain whose issuer carries OU=TrustedDevices and
\* whose leaf does not was rejected overall
C4_Witness ==
    /\ WalkDone /\ Len(cbChain) >= 2 /\ AllPreverified /\ cbEngine[1].has_current
    /\ ~CarriesTrustedOU(cbChain[1])
    /\ CarriesTrustedOU(cbChain[2])
    /\ ~OverallDecision
    /\ \E c \in CbCallSet : c.depth = 1 /\ c.decision

----------------------------------------------------------------------------
(* Properties of the connection handler and the accept loop (Spec) *)

ConnIds == DOMAIN conns

CallsOf(c) == Range(conns[c].calls)

\* the handshake of connection c completed
HandshakeDone(c) ==
    conns[c].pc \in {"read", "write_headers", "write_body", "shutdown", "done"}
    /\ "handshake" \notin conns[c].faults /\ "ssl" \notin conns[c].faults

\* C1: once a byte of the response is on the wire of a connection, its
\* handshake completed with every invocation of the callback accepting:
\* every examined certificate preverified, and the depth-0 certificate
\* carrying OU exactly "TrustedDevices". A peer whose leaf lacks that OU
\* never receives a byte.
C1_AuthorizationSafety ==
    \A c \in ConnIds :
        /\ conns[c].wire # "" =>
            /\ HandshakeDone(c)
            /\ \A k \in CallsOf(c) : k.decision /\ k.preverified
            /\ \E k \in CallsOf(c) :
                /\ k.depth = 0
                /\ IsSome(k.current_cert)
                /\ CarriesTrustedOU(Unwrap(k.current_cert))
        /\ (Len(conns[c].chain) > 0 /\ ~CarriesTrustedOU(conns[c].chain[1])) =>
            conns[c].wire = ""

\* one connection received the whole response while another, whose chain
\* was preverified above a leaf without the OU, was aborted in its handshake
\* with nothing written
C1_Witness ==
    \E c, d \in ConnIds :
        /\ conns[c].wire = resp \o body
        /\ Len(conns[d].chain) = 2
        /\ ~CarriesTrustedOU(conns[d].chain[1])
        /\ Len(conns[d].calls) = 2
        /\ \A k \in CallsOf(d) : k.preverified
        /\ conns[d].result = "Err(handshake)"
        /\ conns[d].wire = ""

\* C8, on the running server: the names advertised to clients are the
\* subjects of the certificates of the client-CA trust store.
C8_AdvertisedIsTrustStore ==
    \A b \in Range(acceptor) :
        Range(b.client_ca_list) = {c.subject : c \in b.ca_store}

\* the faults of a connection that C9 says are reported
Reported(c, kinds) ==
    (conns[c].faults \cap kinds # {}) =>
        /\ conns[c].pc = "done"
        /\ conns[c].result # "Ok"
        /\ <<c, conns[c].result>> \in errlog

\* a step that logs a connection error leaves main where it is
ErrorsKeepProcess ==
    [][errlog' # errlog => (mainpc' = mainpc /\ exit' = exit)]_vars

C10_ShutdownSuppressed ==
    \A c \in ConnIds :
        (HandshakeDone(c) /\ "write" \notin conns[c].faults /\ IsSome(conns[c].sd)) =>
            /\ conns[c].pc = "done"
            /\ conns[c].result = "Ok"
            /\ \A e \in errlog : e[1] # c

\* a connection whose shutdown failed returned success
C10_Witness ==
    \E c \in ConnIds :
        /\ conns[c].sd = Some(FALSE)
        /\ conns[c].wire = resp \o body
        /\ conns[c].result = "Ok"

----------------------------------------------------------------------------
(* Properties of the accept loop and of concurrent tasks (Spec) *)

\* connection c's task returns an error in this step
TaskFails(c) ==
    /\ c \in DOMAIN conns /\ c \in DOMAIN conns'
    /\ conns[c].result = "pending"
    /\ conns'[c].result \notin {"pending", "Ok"}

\* connection c's task returns in this step
TaskEnds(c) ==
    /\ c \in DOMAIN conns /\ c \in DOMAIN conns'
    /\ conns[c].result = "pending"
    /\ conns'[c].result # "pending"

\* C14: a step in which one task fails, at whatever stage, leaves every
\* other task as it was and leaves the accept loop accepting; and the
\* outcome of a finished task is never changed by a later step of another.
C14_TaskIsolation ==
    [][/\ \A c \in DOMAIN conns :
            TaskFails(c) =>
                /\ \A d \in DOMAIN conns \ {c} :
                        d \in DOMAIN conns' /\ conns'[d] = conns[d]
                /\ mainpc = "accept" /\ mainpc' = "accept"
                /\ exit' = None
       /\ \A d \in DOMAIN conns :
            (conns[d].pc = "done" /\ d \in DOMAIN conns') =>
                conns'[d] = conns[d]]_vars
    /\ []((mainpc = "accept" /\ \E c \in DOMAIN conns : conns[c].result # "pending")
            => ENABLED AcceptUpTo(Len(conns) + 1))

\* one task failed in its handshake, one while writing, and the loop is
\* accepting
C14_Witness ==
    /\ mainpc = "accept"
    /\ Len(conns) = 2
    /\ conns[1].result = "Err(handshake)"
    /\ conns[2].result = "Err(write)"

\* C15: the loop is left only by a failed accept, which ends the process
\* with that error; an accepted socket gets exactly one fresh task, the
\* configuration untouched; no return of a task moves main.
C15_AcceptLoopLifetime ==
    [][/\ (mainpc = "accept" /\ mainpc' # "accept") =>
            /\ mainpc' = "exited" /\ exit' = Some("accept")
       /\ (mainpc = "accept" /\ mainpc' = "accept" /\ conns' # conns) =>
            \/ /\ conns' = Append(conns, NewConn)
               /\ acceptor' = acceptor /\ IsSome(acceptor)
            \/ /\ Len(conns') = Len(conns)
               /\ \E c \in DOMAIN conns :
                    \A d \in DOMAIN conns \ {c} : conns'[d] = conns[d]
       /\ \A c \in DOMAIN conns :
            TaskEnds(c) => mainpc = "accept" /\ mainpc' = "accept" /\ exit' = None
       /\ Len(conns') > Len(conns) => mainpc' = "accept"]_vars

\* two sockets were accepted, the task of the first returned an error and
\* the task of the second returned Ok, and the loop goes on
C15_Witness ==
    /\ mainpc = "accept"
    /\ Len(conns) = 2
    /\ conns[1].result = "Err(ssl)"
    /\ conns[2].result = "Ok"

\* C17: once the acceptor is built, no step changes it, nor the material
\* it was built from.
C17_SharedConfigImmutable ==
    [][IsSome(acceptor) =>
        /\ acceptor' = acceptor
        /\ ca' = ca /\ fs' = fs /\ builder' = builder]_vars

\* two tasks are at work at once, one past its handshake, on the acceptor
C17_Witness ==
    /\ IsSome(acceptor)
    /\ Len(conns) = 2
    /\ conns[1].pc = "write_body"
    /\ conns[2].pc = "verify" /\ Len(conns[2].calls) = 1

\* C16: while the process runs, the loop goes on to accept the next socket,
\* and every task whose peer does not stall returns, whatever other task is
\* suspended forever in its handshake, read or write.
C16_StallDoesNotBlock ==
    /\ \A k \in 0..(MaxConns - 1) :
            (mainpc = "accept" /\ Len(conns) = k)
                ~> (mainpc = "exited" \/ Len(conns) > k)
    /\ \A c \in 1..MaxConns :
            (c \in DOMAIN conns)
                ~> \/ mainpc = "exited"
                   \/ c \in DOMAIN conns
                        /\ (conns[c].pc = "done" \/ conns[c].stalled)

\* the first connection is suspended in its read for good; the second,
\* accepted after it, was served
C16_Witness ==
    /\ mainpc = "accept"
    /\ Len(conns) = 2
    /\ conns[1].stalled /\ conns[1].pc = "read"
    /\ conns[2].result = "Ok" /\ conns[2].wire = resp \o body

\* the 200 OK header block for a 3-byte body, and the body
HeaderBlock ==
    "HTTP/1.1 200 OK\r\nContent-Length: 3\r\nContent-Type: text/plain\r\nConnection: close\r\n\r\n"
BodyBytes == "ok\n"

\* the peer of c presented a chain whose every link was preverified and
\* whose leaf carries OU=TrustedDevices
AuthorizedPeer(c) ==
    /\ conns[c].peer = "certificate"
    /\ Len(conns[c].calls) = Len(conns[c].chain)
    /\ \A call \in CallsOf(c) : call.preverified
    /\ CarriesTrustedOU(conns[c].chain[1])

\* C18: the callback refuses no preverified link of a chain whose leaf
\* carries OU=TrustedDevices; the header block reaches the wire before the
\* body; a task that ended with none of its I/O failing returned Ok with
\* the whole response written, the header block announcing the 3 bytes of
\* the body, whatever the read returned; and the task of an authorized
\* peer, once its handshake is through, does end unless its peer stalls or
\* the process exits.
C18_AuthorizedServed ==
    /\ [](\A c \in DOMAIN conns :
            /\ \A call \in CallsOf(c) :
                    (call.preverified
                     /\ (call.depth = 0 => CarriesTrustedOU(Unwrap(call.current_cert))))
                        => call.decision
            /\ Len(BodyBytes) = 3
            /\ conns[c].pc \in {"wrap", "handshake", "verify", "hs_finish", "read",
                                "write_headers"} => conns[c].wire = ""
            /\ conns[c].pc = "write_body" => conns[c].wire = HeaderBlock
            /\ conns[c].pc = "shutdown" => conns[c].wire = HeaderBlock \o BodyBytes
            /\ (conns[c].pc = "done" /\ conns[c].faults = {}) =>
                    /\ AuthorizedPeer(c)
                    /\ conns[c].result = "Ok"
                    /\ conns[c].wire = HeaderBlock \o BodyBytes
                    /\ IsSome(conns[c].rd) /\ Unwrap(conns[c].rd).n \in {0, 1, BufLen})
    /\ \A c \in 1..MaxConns :
            (c \in DOMAIN conns /\ AuthorizedPeer(c) /\ conns[c].pc = "read")
                ~> \/ mainpc = "exited"
                   \/ c \in DOMAIN conns
                        /\ (conns[c].stalled
                            \/ "write" \in conns[c].faults
                            \/ /\ conns[c].result = "Ok"
                               /\ conns[c].wire = HeaderBlock \o BodyBytes)

\* two authorized peers were served in full: the read of one returned zero
\* bytes, the read of the other a single byte
C18_Witness ==
    /\ Len(conns) = 2
    /\ \A c \in {1, 2} :
            /\ AuthorizedPeer(c) /\ conns[c].faults = {}
            /\ conns[c].result = "Ok"
            /\ conns[c].wire = HeaderBlock \o BodyBytes
    /\ conns[1].rd = Some([ok |-> TRUE, n |-> 0])
    /\ conns[2].rd = Some([ok |-> TRUE, n |-> 1])

----------------------------------------------------------------------------
(* Properties of the server run from either material source (SpecSrc) *)

\* every material file main uses is present and usable
MaterialUsable ==
    /\ IsSome(fs.client_ca) /\ Len(Unwrap(fs.client_ca)) > 0
    /\ IF use_pem
       THEN /\ fs.key_pem \notin {"missing", "garbage"}
            /\ IsSome(fs.cert_pem) /\ Len(Unwrap(fs.cert_pem)) > 0
       ELSE /\ IsSome(fs.p12) /\ Unwrap(fs.p12).parses
            /\ IsSome(Unwrap(fs.p12).pkey) /\ IsSome(Unwrap(fs.p12).cert)

\* the error of the first material step that fails on unusable material,
\* in the order main takes the steps
FirstMaterialError ==
    IF ~IsSome(fs.client_ca) THEN "io: client-ca.pem"
    ELSE IF Len(Unwrap(fs.client_ca)) = 0 THEN "pem: no certificate"
    ELSE IF use_pem
         THEN IF fs.key_pem \in {"missing", "garbage"} THEN "key.pem" ELSE "cert.pem"
    ELSE IF ~IsSome(fs.p12) THEN "reading server.p12"
    ELSE IF ~Unwrap(fs.p12).parses THEN "pkcs12 parse"
    ELSE IF ~IsSome(Unwrap(fs.p12).pkey) THEN "PKCS#12 has no private key"
    ELSE "PKCS#12 has no end-entity certificate"

\* the listener was bound at some point
ListenerBound ==
    mainpc = "accept" \/ exit = Some("accept")

\* the Acceptor Configuration holds identity, client-CA trust store, the
\* advertised CA name, the verify mode and the policy callback
FullyAssembled(acc) ==
    /\ IsSome(acc.pkey) /\ IsSome(acc.cert)
    /\ acc.ca_store # {}
    /\ Len(acc.client_ca_list) > 0
    /\ acc.verify_mode = {"PEER", "FAIL_IF_NO_PEER_CERT"}
    /\ acc.callback = "verifier_cb"

\* C12: the listener is bound and connections are handled only with a fully
\* assembled Acceptor Configuration; when a material step fails the process
\* exits with that step's error, and never binds or handles a connection.
C12_NoPartialStartup ==
    /\ (mainpc = "bind" \/ exit = Some("bind") \/ ListenerBound \/ conns # <<>>) =>
            /\ MaterialUsable
            /\ IsSome(acceptor) /\ FullyAssembled(Unwrap(acceptor))
    /\ ~MaterialUsable =>
            /\ mainpc \in {"load_ca", "assemble", "exited"}
            /\ acceptor = None /\ builder = None
            /\ conns = <<>> /\ errlog = {}
            /\ mainpc = "exited" => exit = Some(FirstMaterialError)
    /\ (mainpc = "exited") = IsSome(exit)

\* the PKCS#12 source with an unparsable bundle: main has exited on it
C12_Witness ==
    /\ ~use_pem /\ IsSome(ca)
    /\ IsSome(fs.p12) /\ ~Unwrap(fs.p12).parses
    /\ mainpc = "exited" /\ exit = Some("pkcs12 parse")
    /\ acceptor = None /\ conns = <<>>

\* C13: under either source the built acceptor requires a peer certificate,
\* and a peer that presented none has its handshake failed: nothing is read
\* from it or written to it.
C13_MandatoryClientCert ==
    /\ IsSome(acceptor) =>
            {"PEER", "FAIL_IF_NO_PEER_CERT"} \subseteq Unwrap(acceptor).verify_mode
    /\ \A c \in DOMAIN conns :
            conns[c].peer = "no_certificate" =>
                /\ conns[c].pc = "done"
                /\ conns[c].result = "Err(handshake)"
                /\ conns[c].rd = None /\ conns[c].wire = "" /\ conns[c].sd = None

\* the PKCS#12 source, and a peer that sent an empty Certificate message
C13_Witness ==
    /\ ~use_pem
    /\ \E c \in DOMAIN conns :
            conns[c].peer = "no_certificate" /\ conns[c].result = "Err(handshake)"

\* the invocations of the callback made for the connections so far
AllCalls == UNION {Range(conns[c].calls) : c \in DOMAIN conns}

\* C20: under either source the callback attached to the built acceptor is
\* verifier_cb, never verifier_always_true_cb, and no invocation with
\* preverified false, or at depth 0 on a certificate without
\* OU=TrustedDevices, was answered with accept.
C20_PolicyCallbackInstalled ==
    /\ IsSome(acceptor) => Unwrap(acceptor).callback = "verifier_cb"
    /\ IsSome(builder) => Unwrap(builder).callback # "verifier_always_true_cb"
    /\ \A call \in AllCalls :
        /\ ~call.preverified => ~call.decision
        /\ (call.depth = 0 /\ ~CarriesTrustedOU(Unwrap(call.current_cert)))
                => ~call.decision

\* the PKCS#12 source: a preverified leaf without the OU was refused after
\* the link above it was accepted
C20_Witness ==
    /\ ~use_pem
    /\ \E c \in DOMAIN conns :
        /\ Len(conns[c].calls) = 2
        /\ conns[c].calls[1].decision
        /\ conns[c].calls[2].depth = 0 /\ conns[c].calls[2].preverified
        /\ ~CarriesTrustedOU(Unwrap(conns[c].calls[2].current_cert))
        /\ ~conns[c].calls[2].decision

----------------------------------------------------------------------------
(* Properties of the diagnostics of verifier_cb (SpecCb) *)

\* verifier_cb refused the depth-0 certificate for its OU
RejectedForOU(call) ==
    /\ call.preverified /\ call.depth = 0 /\ IsSome(call.current_cert)
    /\ ~call.decision

\* C19: the message verifier_cb prints when it refuses a leaf for lacking
\* OU=TrustedDevices lists every attribute of the subject, in order, one
\* entry each, a value that is not valid text as the hex of its octets.
C19_RejectionDiagnosticComplete ==
    \A call \in CbCallSet :
        RejectedForOU(call) =>
            call.diag = Some("reject leaf: missing OU=TrustedDevices; subject=\""
                             \o x509_name_to_string(Unwrap(call.current_cert).subject)
                             \o "\"")

\* a leaf with a text CN was refused and the message lists its subject
C19_ListedInFull ==
    \E call \in CbCallSet :
        /\ RejectedForOU(call)
        /\ call.diag = Some("reject leaf: missing OU=TrustedDevices; subject=\"CN=dev1, OU=Other\"")

\* a leaf whose only attribute is an OU that is not valid text was refused:
\* the message lists nothing, the chain listing printed before it has the hex
C19_Dropped ==
    \E call \in CbCallSet :
        /\ RejectedForOU(call)
        /\ Unwrap(call.current_cert).subject = <<Entry("OU", Asn1("TrustedDevices", FALSE))>>
        /\ call.diag = Some("reject leaf: missing OU=TrustedDevices; subject=\"\"")
        /\ call.listing[1] = "chain[0] subject=OU=5472757374656444657669636573"

====
